---- MODULE Spec2Model ----
(***************************************************************************)
(* Model of auto_commit.py: the SimpleAutoCommit class and main().         *)
(*                                                                         *)
(* The program is single threaded.  pc is the position of its one thread.  *)
(* The environment is the git tool (exit status and captured output of     *)
(* every subprocess call), the random module, the text typed at input(),   *)
(* the filesystem and the user's Ctrl+C.                                   *)
(***************************************************************************)
EXTENDS Integers, Sequences, FiniteSets, TLC

(***************************************************************************)
(* Bounds of the exploration.                                              *)
(***************************************************************************)
\* days of the week list that are modelled (a prefix of the list of line 158)
NumDays == 2
\* registrations are explored for days whose drawn 'actual' is at most this
MaxActual == 3
\* weekly refreshes explored in one run
MaxRefreshes == 2
\* batches are explored to the end for counts up to this
MaxBatch == 3

(***************************************************************************)
(* Program constants.                                                      *)
(***************************************************************************)
MinCommitsLow == 1
MinCommitsHigh == 3
MaxCommitsGap == 2
MaxCommitsHigh == 12
HourLow == 9
HourHigh == 18
MinuteLow == 0
MinuteHigh == 59
CountLow == 1
CountHigh == 50
DelayLow == 1
DelayHigh == 5

(***************************************************************************)
(* Text: a string is a sequence of one-character strings.                  *)
(***************************************************************************)
DigitChars == <<"0", "1", "2", "3", "4", "5", "6", "7", "8", "9">>

Whitespace == {" ", "\t", "\n", "\r"}

IsDigit(c) == \E k \in 1..10 : DigitChars[k] = c

DigitVal(c) == (CHOOSE k \in 1..10 : DigitChars[k] = c) - 1

RECURSIVE LStrip(_)
LStrip(s) == IF s # <<>> /\ Head(s) \in Whitespace THEN LStrip(Tail(s)) ELSE s

RECURSIVE RStrip(_)
RStrip(s) ==
    IF s # <<>> /\ s[Len(s)] \in Whitespace THEN RStrip(SubSeq(s, 1, Len(s) - 1)) ELSE s

\* str.strip()
Strip(s) == RStrip(LStrip(s))

RECURSIVE DigitsValue(_)
DigitsValue(s) ==
    IF s = <<>> THEN 0 ELSE 10 * DigitsValue(SubSeq(s, 1, Len(s) - 1)) + DigitVal(s[Len(s)])

\* int(text): surrounding whitespace is ignored, one sign is allowed, the rest
\* must be a non-empty run of decimal digits; anything else is a ValueError.
ParseInt(text) ==
    LET t == Strip(text)
        signed == t # <<>> /\ Head(t) \in {"+", "-"}
        body == IF signed THEN Tail(t) ELSE t
        ok == body # <<>> /\ \A k \in 1..Len(body) : IsDigit(body[k])
    IN  IF ok
        THEN [ok |-> TRUE,
              value |-> IF signed /\ Head(t) = "-" THEN 0 - DigitsValue(body)
                        ELSE DigitsValue(body)]
        ELSE [ok |-> FALSE, value |-> 0]

RECURSIVE Decimal(_)
Decimal(n) ==
    IF n < 10 THEN <<DigitChars[n + 1]>> ELSE Append(Decimal(n \div 10), DigitChars[(n % 10) + 1])

\* f"{n:02d}" for n >= 0: the decimal digits, zero padded to a width of two
Fmt02d(n) == IF n < 10 THEN <<"0">> \o Decimal(n) ELSE Decimal(n)

\* f"{hour:02d}:{minute:02d}"
TimeStr(hour, minute) == Fmt02d(hour) \o <<":">> \o Fmt02d(minute)

(***************************************************************************)
(* random                                                                  *)
(***************************************************************************)
\* random.randint(a, b): any integer of a..b
RandInt(a, b) == a..b

SetMin(S) == CHOOSE x \in S : \A y \in S : x <= y

SetMax(S) == CHOOSE x \in S : \A y \in S : x >= y

\* The draws that are explored out of a set of possible draws: its two ends.
Ends(S) == IF S = {} THEN {} ELSE {SetMin(S), SetMax(S)}

commit_messages ==
    << "feat: implement new functionality", "fix: resolve bug in core logic",
       "docs: update documentation", "refactor: improve code structure",
       "style: fix formatting issues", "test: add unit tests",
       "chore: update dependencies", "perf: optimize performance",
       "security: enhance validation", "ci: update build pipeline",
       "feat: add error handling", "fix: memory leak issue",
       "docs: add code comments", "refactor: clean up utilities",
       "style: improve readability" >>

VARIABLES
    pc,                \* position of the program's thread
    files,             \* the three cosmetic files: [exists, data]
    git_exists,        \* os.path.exists('.git')
    calls,             \* git invocations of the current commit_and_push: <<[cmd, rc]>>
    result,            \* captured stdout of 'git status --porcelain'
    commit_msg,        \* commit_and_push's commit_msg ("" while unbound)
    report,            \* what the current commit_and_push printed as its outcome
    caller,            \* who called commit_and_push
    inp,               \* the text typed at run_multiple's input()
    count,             \* run_multiple's count
    i,                 \* run_multiple's loop index
    delay,             \* run_multiple's delay
    attempts,          \* commit_and_push calls made so far
    sleeps,            \* time.sleep(delay) calls made so far by run_multiple
    batch_msg,         \* what run_multiple printed as its outcome
    main_msg,          \* what main printed as its outcome
    dynamic_schedule,  \* generate_dynamic_schedule's dict, in insertion order
    weekly_schedule,   \* the WeeklyPlan returned by generate_dynamic_schedule
    jobs,              \* schedule's registry: <<[day, at, fn, week]>>
    day_ix,            \* position of the 'for day' loop over weekly_schedule
    n,                 \* position of the 'for i in range(commits_today)' loop
    gen_caller,        \* who called generate_dynamic_schedule
    week,              \* weekly refreshes completed
    last_week,         \* while a refresh generates: 'actual' per day of the plan it replaces
    now,               \* minutes since the registry was last rebuilt (Sunday 23:59)
    pending,           \* run_pending's sorted runnable jobs still to run: <<[k, job]>>
    ran                \* indices of the registry's jobs that ran, in the order they ran

vars ==
    << pc, files, git_exists, calls, result, commit_msg, report, caller, inp, count, i,
       delay, attempts, sleeps, batch_msg, main_msg, dynamic_schedule, weekly_schedule,
       jobs, day_ix, n, gen_caller, week, last_week, now, pending, ran >>

commitVars == << calls, result, commit_msg, report, caller, attempts >>

batchVars == << inp, count, i, delay, sleeps, batch_msg >>

pollVars == << now, pending, ran >>

schedVars ==
    << dynamic_schedule, weekly_schedule, jobs, day_ix, n, gen_caller, week, last_week,
       now, pending, ran >>

(***************************************************************************)
(* Files                                                                   *)
(***************************************************************************)
Paths == {"src/main.py", "README.md", "activity.log"}

NoFile == [exists |-> FALSE, data |-> <<>>]

\* open(path, "w"); f.write(text)
WriteFile(fs, path, text) == [fs EXCEPT ![path] = [exists |-> TRUE, data |-> <<text>>]]

TruncatingAppend(fs, path, text) == [fs EXCEPT ![path] = [exists |-> TRUE, data |-> <<text>>]]

\* open(path, "a"); f.write(text)
AppendFile(fs, path, text) ==
    [fs EXCEPT ![path] = [exists |-> TRUE, data |-> Append(fs[path].data, text)]]

Init ==
    /\ pc = "main"
    /\ files = [p \in Paths |->
                  IF p = "src/main.py" THEN [exists |-> TRUE, data |-> <<"main", "comment">>]
                  ELSE IF p = "README.md" THEN [exists |-> TRUE, data |-> <<"readme", "updated">>]
                  ELSE NoFile]
    /\ git_exists = FALSE
    /\ calls = <<>>
    /\ result = <<>>
    /\ commit_msg = ""
    /\ report = "none"
    /\ caller = "none"
    /\ inp = <<>>
    /\ count = 0
    /\ i = 0
    /\ delay = 0
    /\ attempts = 0
    /\ sleeps = 0
    /\ batch_msg = "none"
    /\ main_msg = "none"
    /\ dynamic_schedule = <<>>
    /\ weekly_schedule = <<>>
    /\ jobs = <<>>
    /\ day_ix = 0
    /\ n = 0
    /\ gen_caller = "none"
    /\ week = 0
    /\ last_week = <<>>
    /\ now = 0
    /\ pending = <<>>
    /\ ran = <<>>

(***************************************************************************)
(* main (lines 280-313)                                                    *)
(***************************************************************************)
\* create_dummy_files: both files are opened with mode "w"
CreateDummyFiles ==
    /\ pc = "main"
    /\ files' = WriteFile(WriteFile(files, "src/main.py", "main"), "README.md", "readme")
    /\ pc' = "menu"
    /\ UNCHANGED << git_exists, main_msg >>
    /\ UNCHANGED commitVars
    /\ UNCHANGED batchVars
    /\ UNCHANGED schedVars

\* texts typed at the menu prompt
ChoiceTexts == { <<"1">>, <<"2">>, <<"3">>, <<"4">>, <<" ", "2", "\n">>, <<"x">>, <<>> }

\* the if/elif chain of lines 296-308
Dispatch(choice) ==
    IF choice = <<"1">> THEN "run_once"
    ELSE IF choice = <<"2">> THEN "run_multiple"
    ELSE IF choice = <<"3">> THEN "schedule_daily_commits"
    ELSE IF choice = <<"4">> THEN "exit"
    ELSE "run_once"

Menu ==
    /\ pc = "menu"
    /\ \E text \in ChoiceTexts :
          LET choice == Strip(text) IN
          /\ pc' = Dispatch(choice)
          /\ main_msg' = IF choice = <<"4">> THEN "files_created"
                         ELSE IF Dispatch(choice) = "run_once" /\ choice # <<"1">>
                              THEN "invalid_choice"
                         ELSE main_msg
    /\ UNCHANGED << files, git_exists >>
    /\ UNCHANGED commitVars
    /\ UNCHANGED batchVars
    /\ UNCHANGED schedVars

(***************************************************************************)
(* commit_and_push (lines 115-154)                                         *)
(***************************************************************************)
\* exit status of a git subprocess: 0, or nonzero
ExitCodes == {0, 1}

\* what 'git status --porcelain' can leave in result.stdout
StatusOutputs == { <<>>, <<"\n">>, <<" ", "M", " ", "f", "\n">> }

\* the subprocess.run calls that pass check=True
CheckedCalls == {"init", "branch", "add", "commit", "push"}

RaisesNever(cmd, rc) == FALSE

\* subprocess.run raises CalledProcessError
Raises(cmd, rc) == cmd \in CheckedCalls /\ rc # 0

\* entering commit_and_push from 'who'
CallCommitAndPush(who) ==
    /\ pc' = "cap_start"
    /\ caller' = who
    /\ attempts' = attempts + 1
    /\ calls' = <<>>
    /\ result' = <<>>
    /\ commit_msg' = ""
    /\ report' = "none"

\* the except clauses of lines 151-154: print and fall off the end
Caught(msg) ==
    /\ report' = msg
    /\ pc' = "cap_return"

\* line 119
CheckGitDir ==
    /\ pc = "cap_start"
    /\ pc' = IF git_exists THEN "cap_change" ELSE "cap_init"
    /\ UNCHANGED << files, git_exists, main_msg >>
    /\ UNCHANGED commitVars
    /\ UNCHANGED batchVars
    /\ UNCHANGED schedVars

\* line 120
GitInit ==
    /\ pc = "cap_init"
    /\ \E rc \in ExitCodes :
          /\ calls' = Append(calls, [cmd |-> "init", rc |-> rc])
          /\ IF Raises("init", rc)
             THEN Caught("git_error") /\ UNCHANGED git_exists
             ELSE /\ git_exists' = (rc = 0 \/ git_exists)
                  /\ pc' = "cap_branch"
                  /\ UNCHANGED report
    /\ UNCHANGED << files, main_msg, result, commit_msg, caller, attempts >>
    /\ UNCHANGED batchVars
    /\ UNCHANGED schedVars

\* lines 121-122
GitBranch ==
    /\ pc = "cap_branch"
    /\ \E rc \in ExitCodes :
          /\ calls' = Append(calls, [cmd |-> "branch", rc |-> rc])
          /\ IF Raises("branch", rc)
             THEN Caught("git_error")
             ELSE pc' = "cap_change" /\ UNCHANGED report
    /\ UNCHANGED << files, git_exists, main_msg, result, commit_msg, caller, attempts >>
    /\ UNCHANGED batchVars
    /\ UNCHANGED schedVars

\* the four bound methods of the list 'changes' (lines 71-76)
changes == {"_add_comment", "_update_readme", "_add_function", "_update_timestamp"}

\* lines 81-113: which file a change opens for append, and what it writes
ChangeTarget(change) ==
    IF change = "_add_comment" THEN "src/main.py"
    ELSE IF change = "_update_readme" THEN "README.md"
    ELSE IF change = "_add_function" THEN "src/main.py"
    ELSE "activity.log"

ChangeText(change) ==
    IF change = "_add_comment" THEN "comment"
    ELSE IF change = "_update_readme" THEN "updated"
    ELSE IF change = "_add_function" THEN "function"
    ELSE "activity"

\* lines 125, 69-79; a failing open/write raises and is caught at line 153
MakeSmallChange ==
    /\ pc = "cap_change"
    /\ \/ \E change \in changes :
             /\ files' = AppendFile(files, ChangeTarget(change), ChangeText(change))
             /\ pc' = "cap_add"
             /\ UNCHANGED report
       \/ /\ Caught("error")
          /\ UNCHANGED files
    /\ UNCHANGED << git_exists, main_msg, calls, result, commit_msg, caller, attempts >>
    /\ UNCHANGED batchVars
    /\ UNCHANGED schedVars

\* line 128
GitAdd ==
    /\ pc = "cap_add"
    /\ \E rc \in ExitCodes :
          /\ calls' = Append(calls, [cmd |-> "add", rc |-> rc])
          /\ IF Raises("add", rc)
             THEN Caught("git_error")
             ELSE pc' = "cap_status" /\ UNCHANGED report
    /\ UNCHANGED << files, git_exists, main_msg, result, commit_msg, caller, attempts >>
    /\ UNCHANGED batchVars
    /\ UNCHANGED schedVars

HasChangesAlways(stdout) == TRUE

\* line 134: if result.stdout.strip()
HasChanges(stdout) == Strip(stdout) # <<>>

\* lines 131-136 and 148-149
GitStatus ==
    /\ pc = "cap_status"
    /\ \E rc \in ExitCodes, out \in StatusOutputs :
          /\ calls' = Append(calls, [cmd |-> "status", rc |-> rc])
          /\ result' = out
          /\ IF Raises("status", rc)
             THEN Caught("git_error") /\ UNCHANGED commit_msg
             ELSE IF HasChanges(out)
             THEN /\ \E k \in Ends(DOMAIN commit_messages) : commit_msg' = commit_messages[k]
                  /\ pc' = "cap_commit"
                  /\ UNCHANGED report
             ELSE /\ report' = "no_changes"
                  /\ pc' = "cap_return"
                  /\ UNCHANGED commit_msg
    /\ UNCHANGED << files, git_exists, main_msg, caller, attempts >>
    /\ UNCHANGED batchVars
    /\ UNCHANGED schedVars

\* line 139
GitCommit ==
    /\ pc = "cap_commit"
    /\ \E rc \in ExitCodes :
          /\ calls' = Append(calls, [cmd |-> "commit", rc |-> rc])
          /\ IF Raises("commit", rc)
             THEN Caught("git_error")
             ELSE pc' = "cap_push" /\ UNCHANGED report
    /\ UNCHANGED << files, git_exists, main_msg, result, commit_msg, caller, attempts >>
    /\ UNCHANGED batchVars
    /\ UNCHANGED schedVars

PushOutcomeUncaught(rc) == IF Raises("push", rc) THEN "git_error" ELSE "pushed"

\* lines 142-147: the inner try around push
PushOutcome(rc) == IF Raises("push", rc) THEN "committed_locally" ELSE "pushed"

\* lines 143-147
GitPush ==
    /\ pc = "cap_push"
    /\ \E rc \in ExitCodes :
          /\ calls' = Append(calls, [cmd |-> "push", rc |-> rc])
          /\ report' = PushOutcome(rc)
          /\ pc' = "cap_return"
    /\ UNCHANGED << files, git_exists, main_msg, result, commit_msg, caller, attempts >>
    /\ UNCHANGED batchVars
    /\ UNCHANGED schedVars

ReturnSiteLeavesLoop(who) == IF who = "run_multiple" THEN "rm_after_commit" ELSE "exit"

\* where commit_and_push's caller goes on: line 266 of run_multiple, the job
\* loop of run_pending (line 212), or the end of main after run_once
ReturnSite(who) ==
    IF who = "run_multiple" THEN "rm_after_commit"
    ELSE IF who = "run_pending" THEN "rp_after_job"
    ELSE "exit"

\* commit_and_push returns None to its caller
CommitAndPushReturn ==
    /\ pc = "cap_return"
    /\ pc' = ReturnSite(caller)
    /\ commit_msg' = ""
    /\ UNCHANGED << files, git_exists, main_msg, calls, result, report, caller, attempts >>
    /\ UNCHANGED batchVars
    /\ UNCHANGED schedVars

\* run_once (lines 245-248)
RunOnce ==
    /\ pc = "run_once"
    /\ CallCommitAndPush("run_once")
    /\ UNCHANGED << files, git_exists, main_msg >>
    /\ UNCHANGED batchVars
    /\ UNCHANGED schedVars

(***************************************************************************)
(* run_multiple (lines 250-278)                                            *)
(***************************************************************************)
\* texts typed at the "How many commits" prompt
CountTexts ==
    { Decimal(k) : k \in 1..MaxBatch }
      \cup { <<"0">>, <<"5", "0">>, <<"5", "1">>, <<"-", "1">>, <<" ", "1", "\n">>,
             <<"a", "b", "c">>, <<"2", ".", "0">>, <<>> }

OutOfRangeAbove(c) == c < CountLow \/ c > CountHigh + 1

\* line 255
OutOfRange(c) == c < CountLow \/ c > CountHigh

\* lines 253-259 and 273-274
ReadCount ==
    /\ pc = "run_multiple"
    /\ \E text \in CountTexts :
          LET parsed == ParseInt(Strip(text)) IN
          /\ inp' = text
          /\ IF ~parsed.ok
             THEN /\ batch_msg' = "value_error"
                  /\ pc' = "exit"
                  /\ UNCHANGED << count, i >>
             ELSE /\ count' = parsed.value
                  /\ IF OutOfRange(parsed.value)
                     THEN /\ batch_msg' = "range_error"
                          /\ pc' = "exit"
                          /\ UNCHANGED i
                     ELSE /\ i' = 0
                          /\ pc' = "rm_loop"
                          /\ UNCHANGED batch_msg
    /\ UNCHANGED << files, git_exists, main_msg, delay, sleeps >>
    /\ UNCHANGED commitVars
    /\ UNCHANGED schedVars

\* lines 261-263: the next iteration of 'for i in range(count)'
BatchCommit ==
    /\ pc = "rm_loop"
    /\ i < count
    /\ count <= MaxBatch
    /\ CallCommitAndPush("run_multiple")
    /\ UNCHANGED << files, git_exists, main_msg >>
    /\ UNCHANGED batchVars
    /\ UNCHANGED schedVars

\* line 271: the loop is exhausted
BatchDone ==
    /\ pc = "rm_loop"
    /\ i >= count
    /\ batch_msg' = "success"
    /\ pc' = "exit"
    /\ UNCHANGED << files, git_exists, main_msg, inp, count, i, delay, sleeps >>
    /\ UNCHANGED commitVars
    /\ UNCHANGED schedVars

DelayAfterEvery(ix, c) == ix < c

\* line 266
DelayNeeded(ix, c) == ix < c - 1

\* lines 266-269: after commit_and_push returned, draw the delay and start sleeping
BatchDelay ==
    /\ pc = "rm_after_commit"
    /\ IF DelayNeeded(i, count)
       THEN /\ \E d \in Ends(RandInt(DelayLow, DelayHigh)) : delay' = d
            /\ sleeps' = sleeps + 1
            /\ pc' = "rm_sleep"
            /\ UNCHANGED i
       ELSE /\ i' = i + 1
            /\ pc' = "rm_loop"
            /\ UNCHANGED << delay, sleeps >>
    /\ UNCHANGED << files, git_exists, main_msg, inp, count, batch_msg >>
    /\ UNCHANGED commitVars
    /\ UNCHANGED schedVars

\* line 269: time.sleep(delay) returns
BatchWake ==
    /\ pc = "rm_sleep"
    /\ i' = i + 1
    /\ pc' = "rm_loop"
    /\ UNCHANGED << files, git_exists, main_msg, inp, count, delay, sleeps, batch_msg >>
    /\ UNCHANGED commitVars
    /\ UNCHANGED schedVars

(***************************************************************************)
(* Ctrl+C: KeyboardInterrupt is delivered while the thread blocks in       *)
(* input(), in a git subprocess or in time.sleep().                        *)
(***************************************************************************)
Blocking ==
    { "menu", "run_multiple", "cap_init", "cap_branch", "cap_add", "cap_status",
      "cap_commit", "cap_push", "rm_sleep", "poll_sleep" }

InRunMultiple ==
    \/ pc \in {"run_multiple", "rm_sleep"}
    \/ pc \in {"cap_init", "cap_branch", "cap_add", "cap_status", "cap_commit", "cap_push"}
         /\ caller = "run_multiple"

\* lines 275-276 (run_multiple) and 310-311 (main); commit_and_push catches
\* Exception only, so the interrupt passes through it
Interrupt ==
    /\ pc \in Blocking
    /\ pc' = "exit"
    /\ IF InRunMultiple
       THEN batch_msg' = "interrupted" /\ UNCHANGED main_msg
       ELSE main_msg' = "stopped" /\ UNCHANGED batch_msg
    /\ UNCHANGED << files, git_exists, inp, count, i, delay, sleeps >>
    /\ UNCHANGED commitVars
    \* the registry and the plan live in the process's memory only
    /\ jobs' = <<>>
    /\ weekly_schedule' = <<>>
    /\ pending' = <<>>
    /\ ran' = <<>>
    /\ UNCHANGED << dynamic_schedule, day_ix, n, gen_caller, week, last_week, now >>

(***************************************************************************)
(* generate_dynamic_schedule (lines 156-173)                               *)
(***************************************************************************)
days == <<"monday", "tuesday", "wednesday", "thursday", "friday", "saturday", "sunday">>

MinCommitsCarried ==
    RandInt(MinCommitsLow,
            IF last_week # <<>> /\ last_week[1] < MinCommitsHigh
            THEN last_week[1] ELSE MinCommitsHigh)

\* line 164
MinCommitsRange == RandInt(MinCommitsLow, MinCommitsHigh)

MaxCommitsNarrow(min_commits) == RandInt(min_commits + MaxCommitsGap - 1, MaxCommitsHigh)

\* line 165
MaxCommitsRange(min_commits) == RandInt(min_commits + MaxCommitsGap, MaxCommitsHigh)

\* line 170
ActualRange(min_commits, max_commits) == RandInt(min_commits, max_commits)

\* the values of dynamic_schedule[day] that the loop body can produce
DayPlans ==
    UNION { UNION { { [min |-> a, max |-> b, actual |-> c] : c \in ActualRange(a, b) }
                    : b \in MaxCommitsRange(a) }
            : a \in MinCommitsRange }

\* those that are explored: every draw at an end of its range
ExploredDayPlans ==
    { plan \in DayPlans :
        /\ plan.min \in Ends(MinCommitsRange)
        /\ plan.max \in Ends(MaxCommitsRange(plan.min))
        /\ plan.actual \in Ends(ActualRange(plan.min, plan.max)) }

\* lines 161-171: one iteration of 'for day in days'
GenerateDay ==
    /\ pc = "generate"
    /\ Len(dynamic_schedule) < NumDays
    /\ \E plan \in ExploredDayPlans :
          dynamic_schedule' =
              Append(dynamic_schedule,
                     [day |-> days[Len(dynamic_schedule) + 1], min |-> plan.min,
                      max |-> plan.max, actual |-> plan.actual])
    /\ UNCHANGED << pc, files, git_exists, main_msg, weekly_schedule, jobs, day_ix, n,
                    gen_caller, week, last_week >>
    /\ UNCHANGED commitVars
    /\ UNCHANGED batchVars
    /\ UNCHANGED pollVars

\* line 173, and the assignment of the result at line 180 or 226
GenerateReturn ==
    /\ pc = "generate"
    /\ Len(dynamic_schedule) >= NumDays
    /\ weekly_schedule' = dynamic_schedule
    /\ dynamic_schedule' = <<>>
    /\ day_ix' = 1
    /\ n' = 0
    /\ pc' = IF gen_caller = "schedule_daily_commits" THEN "sdc_days" ELSE "rws_days"
    /\ last_week' = <<>>
    /\ UNCHANGED << files, git_exists, main_msg, jobs, gen_caller, week >>
    /\ UNCHANGED commitVars
    /\ UNCHANGED batchVars
    /\ UNCHANGED pollVars

(***************************************************************************)
(* The schedule module's registry                                          *)
(***************************************************************************)
\* schedule.every().<day>.at(at).do(fn), registered during week w
Job(day, at, fn, w) == [day |-> day, at |-> at, fn |-> fn, week |-> w]

RefreshJobMonday(w) ==
    Job("monday", <<"2", "3", ":", "5", "9">>, "refresh_weekly_schedule", w)

\* line 208 and line 223
RefreshJob(w) == Job("sunday", <<"2", "3", ":", "5", "9">>, "refresh_weekly_schedule", w)

RegisterOnce(js, job) ==
    IF \E k \in DOMAIN js : js[k].day = job.day /\ js[k].at = job.at /\ js[k].fn = job.fn
    THEN js ELSE Append(js, job)

\* .do(fn): the scheduler appends the job to its list
Register(js, job) == Append(js, job)

\* The draws of (hour, minute) that are explored: the earliest and the latest.
TimeDraws(hours, minutes) ==
    { <<SetMin(hours), SetMin(minutes)>>, <<SetMax(hours), SetMax(minutes)>> }

(***************************************************************************)
(* schedule_daily_commits (lines 175-213)                                  *)
(***************************************************************************)
\* line 180
ScheduleStart ==
    /\ pc = "schedule_daily_commits"
    /\ dynamic_schedule' = <<>>
    /\ gen_caller' = "schedule_daily_commits"
    /\ pc' = "generate"
    /\ UNCHANGED << files, git_exists, main_msg, weekly_schedule, jobs, day_ix, n, week,
                    last_week >>
    /\ UNCHANGED commitVars
    /\ UNCHANGED batchVars
    /\ UNCHANGED pollVars

HourRangeEarly == RandInt(HourLow - 1, HourHigh)

\* line 191
HourRange == RandInt(HourLow, HourHigh)

\* line 192
MinuteRange == RandInt(MinuteLow, MinuteHigh)

\* lines 190-196: one iteration of 'for i in range(commits_today)'
ScheduleCommit ==
    /\ pc = "sdc_days"
    /\ day_ix <= NumDays
    /\ weekly_schedule[day_ix].actual <= MaxActual
    /\ n < weekly_schedule[day_ix].actual
    /\ \E t \in TimeDraws(HourRange, MinuteRange) :
          jobs' = Register(jobs, Job(weekly_schedule[day_ix].day, TimeStr(t[1], t[2]),
                                     "commit_and_push", week))
    /\ n' = n + 1
    /\ UNCHANGED << pc, files, git_exists, main_msg, dynamic_schedule, weekly_schedule,
                    day_ix, gen_caller, week, last_week >>
    /\ UNCHANGED commitVars
    /\ UNCHANGED batchVars
    /\ UNCHANGED pollVars

\* line 198: the inner loop is exhausted, on to the next day
ScheduleNextDay ==
    /\ pc = "sdc_days"
    /\ day_ix <= NumDays
    /\ n >= weekly_schedule[day_ix].actual
    /\ day_ix' = day_ix + 1
    /\ n' = 0
    /\ UNCHANGED << pc, files, git_exists, main_msg, dynamic_schedule, weekly_schedule,
                    jobs, gen_caller, week, last_week >>
    /\ UNCHANGED commitVars
    /\ UNCHANGED batchVars
    /\ UNCHANGED pollVars

\* line 208, then into the loop of line 211
ScheduleRefreshJob ==
    /\ pc = "sdc_days"
    /\ day_ix > NumDays
    /\ jobs' = Append(jobs, RefreshJob(week))
    /\ pc' = "poll"
    /\ UNCHANGED << files, git_exists, main_msg, dynamic_schedule, weekly_schedule, day_ix,
                    n, gen_caller, week, last_week >>
    /\ UNCHANGED commitVars
    /\ UNCHANGED batchVars
    /\ UNCHANGED pollVars

\* line 212: schedule.run_pending() finds the weekly refresh job due and runs it
RunPendingRefresh ==
    /\ pc = "poll"
    /\ week < MaxRefreshes
    /\ \E k \in DOMAIN jobs : jobs[k].fn = "refresh_weekly_schedule"
    /\ pc' = "rws_clear"
    /\ UNCHANGED << files, git_exists, main_msg >>
    /\ UNCHANGED commitVars
    /\ UNCHANGED batchVars
    /\ UNCHANGED schedVars

\* lines 212-213: nothing is due, time.sleep(60)
RunPendingIdle ==
    /\ pc = "poll"
    /\ pc' = "poll_sleep"
    /\ UNCHANGED << files, git_exists, main_msg >>
    /\ UNCHANGED commitVars
    /\ UNCHANGED batchVars
    /\ UNCHANGED schedVars

\* line 213: time.sleep(60) returns
PollWake ==
    /\ pc = "poll_sleep"
    /\ pc' = "poll"
    /\ UNCHANGED << files, git_exists, main_msg >>
    /\ UNCHANGED commitVars
    /\ UNCHANGED batchVars
    /\ UNCHANGED schedVars

(***************************************************************************)
(* refresh_weekly_schedule (lines 215-243)                                 *)
(***************************************************************************)
ClearNothing(js) == js

\* line 220: schedule.clear()
Clear(js) == <<>>

\* lines 220-226
RefreshClear ==
    /\ pc = "rws_clear"
    /\ week' = week + 1
    /\ last_week' = [d \in 1..Len(weekly_schedule) |-> weekly_schedule[d].actual]
    /\ jobs' = Append(Clear(jobs), RefreshJob(week + 1))
    /\ weekly_schedule' = <<>>
    /\ dynamic_schedule' = <<>>
    /\ gen_caller' = "refresh_weekly_schedule"
    /\ pc' = "generate"
    /\ now' = 0
    /\ ran' = <<>>
    /\ UNCHANGED << files, git_exists, main_msg, day_ix, n, pending >>
    /\ UNCHANGED commitVars
    /\ UNCHANGED batchVars

\* line 236
RefreshHourRange == RandInt(HourLow, HourHigh)

\* line 237
RefreshMinuteRange == RandInt(MinuteLow, MinuteHigh)

\* lines 235-239
RefreshCommit ==
    /\ pc = "rws_days"
    /\ day_ix <= NumDays
    /\ weekly_schedule[day_ix].actual <= MaxActual
    /\ n < weekly_schedule[day_ix].actual
    /\ \E t \in TimeDraws(RefreshHourRange, RefreshMinuteRange) :
          jobs' = Register(jobs, Job(weekly_schedule[day_ix].day, TimeStr(t[1], t[2]),
                                     "commit_and_push", week))
    /\ n' = n + 1
    /\ UNCHANGED << pc, files, git_exists, main_msg, dynamic_schedule, weekly_schedule,
                    day_ix, gen_caller, week, last_week >>
    /\ UNCHANGED commitVars
    /\ UNCHANGED batchVars
    /\ UNCHANGED pollVars

\* line 241
RefreshNextDay ==
    /\ pc = "rws_days"
    /\ day_ix <= NumDays
    /\ n >= weekly_schedule[day_ix].actual
    /\ day_ix' = day_ix + 1
    /\ n' = 0
    /\ UNCHANGED << pc, files, git_exists, main_msg, dynamic_schedule, weekly_schedule,
                    jobs, gen_caller, week, last_week >>
    /\ UNCHANGED commitVars
    /\ UNCHANGED batchVars
    /\ UNCHANGED pollVars

\* line 243: the job function returns into run_pending, which goes on with its
\* runnable jobs and then sleeps
RefreshReturn ==
    /\ pc = "rws_days"
    /\ day_ix > NumDays
    /\ pc' = IF pending = <<>> THEN "poll_sleep" ELSE "rp_after_job"
    /\ UNCHANGED << files, git_exists, main_msg >>
    /\ UNCHANGED commitVars
    /\ UNCHANGED batchVars
    /\ UNCHANGED schedVars

(***************************************************************************)
(* The polling loop with its clock (lines 211-213)                         *)
(*                                                                         *)
(* schedule.run_pending() runs, in the calling thread and one after        *)
(* another, the jobs whose next_run is not after the clock, sorted by      *)
(* next_run; a job that ran is due again one week later.  The clock counts *)
(* minutes since the registry was rebuilt at Sunday 23:59, so that minute  *)
(* 1 is Monday 00:00.  The loop polls once a minute: polls that find no    *)
(* job due change nothing and are taken together with the sleep.           *)
(***************************************************************************)
MinutesPerDay == 24 * 60

MinutesPerWeek == 7 * MinutesPerDay

DayIndex(day) == CHOOSE d \in DOMAIN days : days[d] = day

\* .at("HH:MM"): minutes after midnight
AtMinutes(at) == 60 * DigitsValue(SubSeq(at, 1, 2)) + DigitsValue(SubSeq(at, 4, 5))

\* first time the job's day and time come after the registry was rebuilt
DueTime(job) == (DayIndex(job.day) - 1) * MinutesPerDay + AtMinutes(job.at) + 1

\* how many times job k ran
Runs(done, k) == Cardinality({ x \in DOMAIN done : done[x] = k })

NextRunNotMoved(js, done, k) == DueTime(js[k])

\* the job's next_run: every run moves it one week on
NextRun(js, done, k) == DueTime(js[k]) + MinutesPerWeek * Runs(done, k)

RunnableDistinct(js, done, t) ==
    { k \in DOMAIN js :
        /\ NextRun(js, done, k) <= t
        /\ \A b \in 1..(k - 1) : js[b].day # js[k].day \/ js[b].at # js[k].at }

\* the jobs run_pending finds due at time t
Runnable(js, done, t) == { k \in DOMAIN js : NextRun(js, done, k) <= t }

RECURSIVE SortByNextRun(_, _, _)
\* sorted(runnable_jobs): by next_run, jobs of equal next_run in registry order
SortByNextRun(js, done, S) ==
    IF S = {} THEN <<>>
    ELSE LET k == CHOOSE a \in S :
                     \A b \in S : \/ NextRun(js, done, a) < NextRun(js, done, b)
                                  \/ /\ NextRun(js, done, a) = NextRun(js, done, b)
                                     /\ a <= b
         IN  << [k |-> k, job |-> js[k]] >> \o SortByNextRun(js, done, S \ {k})

\* the earliest next_run in the registry
EarliestNextRun(js, done) ==
    CHOOSE t \in { NextRun(js, done, k) : k \in DOMAIN js } :
        \A k \in DOMAIN js : t <= NextRun(js, done, k)

\* line 213 and the polls that find nothing due: the clock reaches the first
\* poll at which a job is due
PollSleepUntilDue ==
    /\ pc = "poll_sleep"
    /\ jobs # <<>>
    /\ now' = IF EarliestNextRun(jobs, ran) > now THEN EarliestNextRun(jobs, ran) ELSE now
    /\ pc' = "run_pending"
    /\ UNCHANGED << files, git_exists, main_msg, dynamic_schedule, weekly_schedule, jobs,
                    day_ix, n, gen_caller, week, last_week, pending, ran >>
    /\ UNCHANGED commitVars
    /\ UNCHANGED batchVars

\* line 212: run_pending collects the runnable jobs and sorts them
RunPending ==
    /\ pc = "run_pending"
    /\ pending' = SortByNextRun(jobs, ran, Runnable(jobs, ran, now))
    /\ pc' = "rp_loop"
    /\ UNCHANGED << files, git_exists, main_msg, dynamic_schedule, weekly_schedule, jobs,
                    day_ix, n, gen_caller, week, last_week, now, ran >>
    /\ UNCHANGED commitVars
    /\ UNCHANGED batchVars

StartAnytime == pc \in { "rp_loop", "cap_status" }

\* run_pending calls the next job only when the call of the one before has
\* returned
ReadyForNextJob == pc = "rp_loop"

\* line 212: run_pending calls the job function of the next runnable job
RunPendingJob ==
    /\ ReadyForNextJob
    /\ pending # <<>>
    /\ IF Head(pending).job.fn = "commit_and_push"
       THEN /\ CallCommitAndPush("run_pending")
            /\ UNCHANGED << files, git_exists, main_msg >>
       ELSE /\ pc' = "rws_clear"
            /\ UNCHANGED << files, git_exists, main_msg >>
            /\ UNCHANGED commitVars
    /\ UNCHANGED batchVars
    /\ UNCHANGED schedVars

\* line 212: the job function has returned; a job still in the registry has
\* its next_run moved on, and run_pending goes on with the rest of its list
RunPendingAfterJob ==
    /\ pc = "rp_after_job"
    /\ pending # <<>>
    /\ LET this == Head(pending) IN
          ran' = IF this.k \in DOMAIN jobs /\ jobs[this.k] = this.job
                 THEN Append(ran, this.k) ELSE ran
    /\ pending' = Tail(pending)
    /\ pc' = "rp_loop"
    /\ UNCHANGED << files, git_exists, main_msg, dynamic_schedule, weekly_schedule, jobs,
                    day_ix, n, gen_caller, week, last_week, now >>
    /\ UNCHANGED commitVars
    /\ UNCHANGED batchVars

\* lines 212-213: every runnable job has run; time.sleep(60)
RunPendingDone ==
    /\ pc = "rp_loop"
    /\ pending = <<>>
    /\ pc' = "poll_sleep"
    /\ UNCHANGED << files, git_exists, main_msg >>
    /\ UNCHANGED commitVars
    /\ UNCHANGED batchVars
    /\ UNCHANGED schedVars

(***************************************************************************)
(* The program                                                             *)
(***************************************************************************)
Next ==
    \/ CreateDummyFiles
    \/ Menu
    \/ RunOnce
    \/ CheckGitDir
    \/ GitInit
    \/ GitBranch
    \/ MakeSmallChange
    \/ GitAdd
    \/ GitStatus
    \/ GitCommit
    \/ GitPush
    \/ CommitAndPushReturn
    \/ ReadCount
    \/ BatchCommit
    \/ BatchDone
    \/ BatchDelay
    \/ BatchWake
    \/ Interrupt
    \/ ScheduleStart
    \/ GenerateDay
    \/ GenerateReturn
    \/ ScheduleCommit
    \/ ScheduleNextDay
    \/ ScheduleRefreshJob
    \/ RunPendingRefresh
    \/ RunPendingIdle
    \/ PollWake
    \/ RefreshClear
    \/ RefreshCommit
    \/ RefreshNextDay
    \/ RefreshReturn

Spec == Init /\ [][Next]_vars

(***************************************************************************)
(* The program with the clock: run once, the batch, and continuous mode    *)
(* followed from a weekly refresh that has just drawn its plan, through    *)
(* the registration of the plan's jobs and one week of polling, to the     *)
(* next refresh clearing the registry.                                     *)
(***************************************************************************)
\* the plan the refresh has drawn: three commits on the first day, one on
\* every other day
PollPlan ==
    [d \in 1..NumDays |->
        [day |-> days[d], min |-> SetMin(MinCommitsRange),
         max |-> SetMin(MaxCommitsRange(SetMin(MinCommitsRange))),
         actual |-> IF d = 1 THEN SetMax(RandInt(SetMin(MinCommitsRange),
                                           SetMin(MaxCommitsRange(SetMin(MinCommitsRange)))))
                    ELSE SetMin(MinCommitsRange)]]

\* refresh_weekly_schedule at line 230, called by run_pending at Sunday 23:59:
\* the registry is cleared, the refresh job registered again, the plan drawn
PollInit ==
    /\ pc = "rws_days"
    /\ files = [p \in Paths |->
                  IF p = "src/main.py" THEN [exists |-> TRUE, data |-> <<"main">>]
                  ELSE IF p = "README.md" THEN [exists |-> TRUE, data |-> <<"readme">>]
                  ELSE NoFile]
    /\ git_exists = FALSE
    /\ calls = <<>>
    /\ result = <<>>
    /\ commit_msg = ""
    /\ report = "none"
    /\ caller = "none"
    /\ inp = <<>>
    /\ count = 0
    /\ i = 0
    /\ delay = 0
    /\ attempts = 0
    /\ sleeps = 0
    /\ batch_msg = "none"
    /\ main_msg = "none"
    /\ dynamic_schedule = <<>>
    /\ weekly_schedule = PollPlan
    /\ jobs = << RefreshJob(1) >>
    /\ day_ix = 1
    /\ n = 0
    /\ gen_caller = "refresh_weekly_schedule"
    /\ week = 1
    /\ last_week = <<>>
    /\ now = 0
    /\ pending = << [k |-> 1, job |-> RefreshJob(0)] >>
    /\ ran = <<>>

NextPoll ==
    \/ CreateDummyFiles
    \/ Menu
    \/ RunOnce
    \/ CheckGitDir
    \/ GitInit
    \/ GitBranch
    \/ MakeSmallChange
    \/ GitAdd
    \/ GitStatus
    \/ GitCommit
    \/ GitPush
    \/ CommitAndPushReturn
    \/ ReadCount
    \/ BatchCommit
    \/ BatchDone
    \/ BatchDelay
    \/ BatchWake
    \/ Interrupt
    \/ RefreshCommit
    \/ RefreshNextDay
    \/ RefreshReturn
    \/ PollSleepUntilDue
    \/ RunPending
    \/ RunPendingJob
    \/ RunPendingAfterJob
    \/ RunPendingDone
    \/ RefreshClear

SpecPoll == (Init \/ PollInit) /\ [][NextPoll]_vars

(***************************************************************************)
(* Properties                                                              *)
(***************************************************************************)
InCommitAndPush ==
    pc \in { "cap_start", "cap_init", "cap_branch", "cap_change", "cap_add", "cap_status",
             "cap_commit", "cap_push" }

Issued(cmd) == \E k \in DOMAIN calls : calls[k].cmd = cmd

Failed(cmd) == \E k \in DOMAIN calls : calls[k].cmd = cmd /\ calls[k].rc # 0

Succeeded(cmd) == \E k \in DOMAIN calls : calls[k].cmd = cmd /\ calls[k].rc = 0

PlanEntries ==
    { dynamic_schedule[k] : k \in DOMAIN dynamic_schedule }
      \cup { weekly_schedule[k] : k \in DOMAIN weekly_schedule }

CommitJobs == { k \in DOMAIN jobs : jobs[k].fn = "commit_and_push" }

RefreshJobs == { k \in DOMAIN jobs : jobs[k].fn = "refresh_weekly_schedule" }

DigitOf ==
    ("0" :> 0) @@ ("1" :> 1) @@ ("2" :> 2) @@ ("3" :> 3) @@ ("4" :> 4) @@ ("5" :> 5)
      @@ ("6" :> 6) @@ ("7" :> 7) @@ ("8" :> 8) @@ ("9" :> 9)

\* the hour and the minute a registered "HH:MM" stands for
HourOf(at) == 10 * DigitOf[at[1]] + DigitOf[at[2]]

MinuteOf(at) == 10 * DigitOf[at[4]] + DigitOf[at[5]]

WellFormedTime(at) ==
    /\ Len(at) = 5
    /\ at[3] = ":"
    /\ \A k \in {1, 2, 4, 5} : at[k] \in DOMAIN DigitOf

\* C1: every day of every plan generate_dynamic_schedule builds or returns, at
\* start-up and in every refresh, has 1 <= min <= 3, min+2 <= max <= 12 and
\* min <= actual <= max.
C1_PlanBounds ==
    \A e \in PlanEntries :
        /\ 1 <= e.min /\ e.min <= 3
        /\ e.min + 2 <= e.max /\ e.max <= 12
        /\ e.min <= e.actual /\ e.actual <= e.max

\* a refresh has returned a full plan holding a day at the top of every range
\* and a day at the bottom of every range
C1_Witness ==
    /\ week >= 1
    /\ Len(weekly_schedule) = NumDays
    /\ \E e \in PlanEntries : e.min = 3 /\ e.max = 12 /\ e.actual = 12
    /\ \E e \in PlanEntries : e.min = 1 /\ e.max = 3 /\ e.actual = 1

\* C2: once the status check of an execution has captured empty output, that
\* execution issues neither 'commit' nor 'push'.
C2_NoCommitWhenClean ==
    (Issued("status") /\ result = <<>>) => (~Issued("commit") /\ ~Issued("push"))

\* an execution ended on an empty status, after the mutation and 'add .'
C2_Witness ==
    /\ pc = "cap_return"
    /\ Succeeded("add")
    /\ Issued("status")
    /\ result = <<>>
    /\ report = "no_changes"
    /\ files["activity.log"].exists

\* C3: when 'commit' exited 0 and the 'push' after it exited nonzero, the
\* execution reports a local commit, never a Git error, and has returned.
C3_PushFailureIsLocalCommit ==
    (Succeeded("commit") /\ Failed("push"))
        => (report = "committed_locally" /\ ~InCommitAndPush)

\* the execution with the failed push has returned into run_multiple's loop
C3_Witness ==
    /\ Succeeded("commit")
    /\ Failed("push")
    /\ report = "committed_locally"
    /\ pc = "rm_after_commit"

\* C4: a nonzero exit of 'init', 'branch -M main', 'add .', 'status --porcelain'
\* or 'commit -m' ends the execution in the reported Git error.
C4_NonPushFailureIsGitError ==
    \A cmd \in {"init", "branch", "add", "status", "commit"} :
        Failed(cmd) => (report = "git_error" /\ ~InCommitAndPush)

\* C5: a batch that runs to its end made exactly 'count' attempts and
\* 'count' - 1 delays; every delay is of 1..5 and is slept after an attempt
\* that another attempt follows, and attempt k starts after exactly k-1 delays.
C5_BatchAttemptsAndDelays ==
    /\ batch_msg = "success"
          => (count >= 1 /\ count <= 50 /\ attempts = count /\ sleeps = count - 1)
    /\ pc = "rm_sleep"
          => (delay >= 1 /\ delay <= 5 /\ sleeps = attempts /\ attempts < count)
    /\ (caller = "run_multiple" /\ (InCommitAndPush \/ pc \in {"cap_return", "rm_after_commit"}))
          => sleeps = attempts - 1

\* a batch of three ended although its last attempt failed
C5_Witness ==
    /\ batch_msg = "success"
    /\ count = 3
    /\ attempts = 3
    /\ sleeps = 2
    /\ delay = 5
    /\ report = "git_error"

\* the typed text is no decimal integer, or one below 1 or above 50
InvalidCount(text) ==
    LET parsed == ParseInt(text) IN ~parsed.ok \/ parsed.value < 1 \/ parsed.value > 50

\* run_multiple has read its input
CountRead ==
    \/ batch_msg \in {"success", "value_error", "range_error"}
    \/ pc \in {"rm_loop", "rm_after_commit", "rm_sleep"}
    \/ caller = "run_multiple"

\* C6: after an invalid count was typed, run_multiple has reported it and
\* returned, with no attempt, no git invocation and no delay.
C6_InvalidCountRejected ==
    (CountRead /\ InvalidCount(inp))
        => /\ batch_msg \in {"value_error", "range_error"}
           /\ pc = "exit"
           /\ main_msg = "none"
           /\ attempts = 0
           /\ calls = <<>>
           /\ sleeps = 0

\* 51 was typed and rejected
C6_Witness ==
    /\ inp = <<"5", "1">>
    /\ batch_msg = "range_error"
    /\ pc = "exit"
    /\ attempts = 0

\* C7: every registered commit job's time is "HH:MM" with HH in 9..18 and MM
\* in 0..59.
C7_TimesInRange ==
    \A k \in CommitJobs :
        /\ WellFormedTime(jobs[k].at)
        /\ HourOf(jobs[k].at) >= 9 /\ HourOf(jobs[k].at) <= 18
        /\ MinuteOf(jobs[k].at) >= 0 /\ MinuteOf(jobs[k].at) <= 59

\* a refresh registered a job at 09:00 and a job at 18:59
C7_Witness ==
    /\ week >= 1
    /\ \E k \in CommitJobs : jobs[k].week >= 1 /\ jobs[k].at = <<"0", "9", ":", "0", "0">>
    /\ \E k \in CommitJobs : jobs[k].week >= 1 /\ jobs[k].at = <<"1", "8", ":", "5", "9">>

\* C8: every registered commit job's time of day lies in 09:00..18:00.
C8_TimesWithinWindow ==
    \A k \in CommitJobs :
        /\ WellFormedTime(jobs[k].at)
        /\ 60 * HourOf(jobs[k].at) + MinuteOf(jobs[k].at) >= 60 * 9
        /\ 60 * HourOf(jobs[k].at) + MinuteOf(jobs[k].at) <= 60 * 18

\* C9: whenever the polling loop holds a finished registry, it has exactly one
\* weekly-refresh job and, for every day, exactly 'actual' commit jobs of the
\* newest plan; every job was registered with the newest plan.
C9_RefreshRebuildsRegistry ==
    pc \in {"poll", "poll_sleep"}
        => /\ Cardinality(RefreshJobs) = 1
           /\ Len(weekly_schedule) = NumDays
           /\ \A d \in DOMAIN weekly_schedule :
                 Cardinality({ k \in CommitJobs : jobs[k].day = weekly_schedule[d].day })
                     = weekly_schedule[d].actual
           /\ \A k \in CommitJobs :
                 \E d \in DOMAIN weekly_schedule : jobs[k].day = weekly_schedule[d].day
           /\ \A k \in DOMAIN jobs : jobs[k].week = week

\* the second refresh has rebuilt the registry from a plan of 3 and 1 commits
C9_Witness ==
    /\ pc = "poll_sleep"
    /\ week = 2
    /\ weekly_schedule[1].actual = 3
    /\ weekly_schedule[2].actual = 1
    /\ Cardinality(CommitJobs) >= 4

LoopPcs ==
    { "poll_sleep", "run_pending", "rp_loop", "rp_after_job", "rws_clear", "generate",
      "rws_days", "cap_start", "cap_init", "cap_branch", "cap_change", "cap_add",
      "cap_status", "cap_commit", "cap_push", "cap_return" }

\* C11: in continuous mode the program is always inside the polling loop or a
\* job the loop runs, whatever a scheduled commit execution reported and
\* after a weekly refresh; it is at its end only after an interrupt, which
\* main reports as stopped.
C11_LoopEndsOnlyByInterrupt ==
    gen_caller # "none" =>
        /\ pc \in LoopPcs \cup {"exit"}
        /\ pc = "exit" => main_msg = "stopped"

\* a scheduled commit execution failed with a git error, and the loop sleeps
\* again after one more job
C11_Witness ==
    /\ pc = "poll_sleep"
    /\ caller = "run_pending"
    /\ report \in {"git_error", "error"}
    /\ Len(ran) >= 2

\* the git commands in the order of lines 120-144
CallOrder == << "init", "branch", "add", "status", "commit", "push" >>

\* the commands issued so far by this execution are a run of CallOrder from
\* init or from add; only the last may be a checked call that failed; push
\* follows a commit that exited 0
CallsInOrder ==
    /\ \E start \in {1, 3} :
          /\ Len(calls) <= Len(CallOrder) + 1 - start
          /\ \A k \in DOMAIN calls : calls[k].cmd = CallOrder[start + k - 1]
    /\ \A k \in DOMAIN calls :
          (calls[k].cmd \in CheckedCalls /\ calls[k].rc # 0) => k = Len(calls)
    /\ \A k \in DOMAIN calls :
          calls[k].cmd = "push" => (k > 1 /\ calls[k - 1].cmd = "commit" /\ calls[k - 1].rc = 0)

\* a command is issued only while nothing has been caught; init only when
\* there is no repository; add only from the step after the mutation, which
\* is the only step of an execution that changes files and comes before add
StepInOrder ==
    /\ Len(calls') > Len(calls) => report = "none"
    /\ (Len(calls') > Len(calls) /\ calls'[Len(calls')].cmd = "init") => ~git_exists
    /\ (Len(calls') > Len(calls) /\ calls'[Len(calls')].cmd = "add") => pc = "cap_add"
    /\ (pc' = "cap_add" /\ pc # "cap_add") =>
          /\ files' # files
          /\ \A k \in DOMAIN calls : calls[k].cmd \in {"init", "branch"}
    /\ (InCommitAndPush /\ files' # files) => pc' = "cap_add"

\* C12: within one commit_and_push execution the steps come only in the order
\* init, branch -M main (both only without a repository), mutation, add,
\* status, commit, push; nothing is issued after a checked step failed, and
\* push only after the commit of the same execution exited 0.
C12_StepsInFixedOrder == [][CallsInOrder' /\ StepInOrder]_vars

\* an execution that issued all six commands and pushed
C12_Witness ==
    /\ pc = "cap_return"
    /\ Len(calls) = Len(CallOrder)
    /\ report = "pushed"

\* C13: a commit execution starts only when none is in progress: the jobs due
\* in one poll, also those of the same day and time, and the attempts of a
\* batch run one after another.
C13_OneExecutionAtATime ==
    [][attempts' # attempts => ~(InCommitAndPush \/ pc = "cap_return")]_vars

\* the second of two jobs of the same day and time starts after the first has
\* returned
C13_Witness ==
    /\ pc = "cap_start"
    /\ caller = "run_pending"
    /\ Len(ran) = 1
    /\ pending # <<>>
    /\ Head(pending).k # ran[1]
    /\ Head(pending).job.day = jobs[ran[1]].day
    /\ Head(pending).job.at = jobs[ran[1]].at

\* the change of one file by a step
Grown(p) ==
    /\ files'[p].exists
    /\ Len(files'[p].data) = Len(files[p].data) + 1
    /\ SubSeq(files'[p].data, 1, Len(files[p].data)) = files[p].data
    /\ files'[p].data[Len(files'[p].data)] \in { ChangeText(c) : c \in changes }

\* C14: every call of make_small_change that returns has appended one chunk
\* to exactly one of the three files, which is one chunk longer and keeps
\* what it held, and has left the other two files as they were.
C14_MutationGrowsOneFile ==
    [][(pc = "cap_change" /\ pc' = "cap_add") =>
          \E p \in Paths :
              /\ Grown(p)
              /\ \A q \in Paths \ {p} : files'[q] = files[q]]_vars

\* a mutation has created activity.log beside the two initial files
C14_Witness ==
    /\ pc = "cap_add"
    /\ files["activity.log"].exists
    /\ Len(files["src/main.py"].data) = 1
    /\ Len(files["README.md"].data) = 1

\* the registry is complete and the loop is polling
Polling ==
    /\ gen_caller # "none"
    /\ weekly_schedule # <<>>
    /\ pc \in { "poll_sleep", "run_pending", "rp_loop" }

\* C15: jobs of equal day and time are all kept: each day has as many commit
\* jobs as its 'actual', and when the loop sleeps every commit job that has
\* come due has run once, each in a commit execution of its own.
C15_DuplicatesKeptAndRun ==
    /\ Polling =>
          \A d \in DOMAIN weekly_schedule :
              Cardinality({ k \in CommitJobs : jobs[k].day = weekly_schedule[d].day })
                  = weekly_schedule[d].actual
    /\ (Polling /\ pc = "poll_sleep") =>
          /\ \A k \in CommitJobs : DueTime(jobs[k]) <= now => Runs(ran, k) = 1
          /\ attempts = Cardinality({ k \in CommitJobs : DueTime(jobs[k]) <= now })

\* two jobs of the same day and time have both run
C15_Witness ==
    /\ Polling
    /\ pc = "poll_sleep"
    /\ \E a, b \in CommitJobs :
          /\ a # b
          /\ jobs[a].day = jobs[b].day
          /\ jobs[a].at = jobs[b].at
          /\ Runs(ran, a) = 1
          /\ Runs(ran, b) = 1
    /\ attempts >= 2

\* C16: setup at program start leaves a file that exists as it is.
C16_SetupKeepsExistingFiles ==
    [][pc = "main" => \A p \in Paths : files[p].exists => files'[p] = files[p]]_vars

\* C17: when a refresh clears the registry, every commit job that the refresh
\* before it installed came due before the refresh job did and has run
\* exactly once.
C17_EveryEntryRunsOnceBeforeDiscard ==
    (pc = "rws_clear" /\ week >= 1) =>
        \A k \in CommitJobs :
            /\ Runs(ran, k) = 1
            /\ \A r \in RefreshJobs : DueTime(jobs[k]) < DueTime(jobs[r])

\* the refresh is about to clear a registry whose commit jobs have all run
C17_Witness ==
    /\ pc = "rws_clear"
    /\ week >= 1
    /\ Cardinality(CommitJobs) >= NumDays + 1
    /\ Len(ran) = Cardinality(CommitJobs)

====
